---- MODULE Spec2Model ----
(***************************************************************************)
(* Model of the structured-summarization pipeline of the AI interview      *)
(* agent: app/llm.py (LLMClient, cache, fallback), app/summarize.py        *)
(* (extraction, schema coercion, rendering, summarize_session),            *)
(* app/interview.py (InterviewAgent) and the summary and save steps of     *)
(* app/main.py.                                                            *)
(*                                                                         *)
(* Python str values are TLA+ strings (Len, \o and SubSeq act on them).    *)
(* Every other Python value is a record tagged by field t.                 *)
(***************************************************************************)
EXTENDS Integers, Sequences, FiniteSets, TLC

(***************************************************************************)
(* Python values                                                           *)
(***************************************************************************)
PyNone == [t |-> "none"]
PyBool(b) == [t |-> "bool", b |-> b]
PyNum(n) == [t |-> "num", n |-> n]
PyStr(s) == [t |-> "str", s |-> s]
PyList(items) == [t |-> "list", items |-> items]
PyDict(ks, vs) == [t |-> "dict", keys |-> ks, vals |-> vs]
EmptyDict == PyDict(<<>>, <<>>)

\* Python truth value of an object (used by `or`, `if v`, `if not text`).
Truthy(v) ==
  CASE v.t = "none" -> FALSE
    [] v.t = "bool" -> v.b
    [] v.t = "num" -> v.n # 0
    [] v.t = "str" -> Len(v.s) > 0
    [] v.t = "list" -> Len(v.items) > 0
    [] v.t = "dict" -> Len(v.keys) > 0
    [] OTHER -> TRUE

\* Python `a or b`.
PyOr(a, b) == IF Truthy(a) THEN a ELSE b

\* dict[key] = value on an insertion-ordered dict: a key already present
\* keeps its position and takes the new value.
DictSet(d, k, v) ==
  IF \E i \in 1..Len(d.keys) : d.keys[i] = k
  THEN PyDict(d.keys, [i \in 1..Len(d.keys) |-> IF d.keys[i] = k THEN v ELSE d.vals[i]])
  ELSE PyDict(Append(d.keys, k), Append(d.vals, v))

\* dict.get(key, default)
DictGet(d, k, default) ==
  IF \E i \in 1..Len(d.keys) : d.keys[i] = k
  THEN d.vals[CHOOSE i \in 1..Len(d.keys) : d.keys[i] = k]
  ELSE default

DictHas(d, k) == \E i \in 1..Len(d.keys) : d.keys[i] = k

(***************************************************************************)
(* str helpers                                                             *)
(***************************************************************************)
CharAt(s, i) == SubSeq(s, i, i)

\* str[a:b] with 0-based Python slice bounds 0 <= a <= b <= len.
Slice(s, a, b) == SubSeq(s, a + 1, b)

IsSpace(c) == c \in {" ", "\n", "\t", "\r"}

Min(S) == CHOOSE x \in S : \A y \in S : x <= y
Max(S) == CHOOSE x \in S : \A y \in S : x >= y

\* the first position at or after i that holds no white space (Len + 1 when
\* there is none)
LStripFrom(s, i) ==
  Min({j \in i..Len(s) : ~IsSpace(CharAt(s, j))} \cup {Max({i, Len(s) + 1})})

\* the last position at or before j that holds no white space (0 when there
\* is none)
RStripTo(s, j) ==
  Max({k \in 1..j : ~IsSpace(CharAt(s, k))} \cup {0})

RStrip(s) == SubSeq(s, 1, RStripTo(s, Len(s)))
Strip(s) == SubSeq(s, LStripFrom(s, 1), RStripTo(s, Len(s)))

UpperCase == <<"A","B","C","D","E","F","G","H","I","J","K","L","M",
               "N","O","P","Q","R","S","T","U","V","W","X","Y","Z">>
LowerCase == <<"a","b","c","d","e","f","g","h","i","j","k","l","m",
               "n","o","p","q","r","s","t","u","v","w","x","y","z">>

LowerChar(c) ==
  IF \E i \in 1..26 : UpperCase[i] = c
  THEN LowerCase[CHOOSE i \in 1..26 : UpperCase[i] = c] ELSE c

UpperChar(c) ==
  IF \E i \in 1..26 : LowerCase[i] = c
  THEN UpperCase[CHOOSE i \in 1..26 : LowerCase[i] = c] ELSE c

RECURSIVE Lower(_)
\* str.lower, by halves
Lower(s) ==
  IF Len(s) = 0 THEN ""
  ELSE IF Len(s) = 1 THEN LowerChar(s)
  ELSE Lower(SubSeq(s, 1, Len(s) \div 2)) \o Lower(SubSeq(s, Len(s) \div 2 + 1, Len(s)))

RECURSIVE Upper(_)
\* str.upper, by halves
Upper(s) ==
  IF Len(s) = 0 THEN ""
  ELSE IF Len(s) = 1 THEN UpperChar(s)
  ELSE Upper(SubSeq(s, 1, Len(s) \div 2)) \o Upper(SubSeq(s, Len(s) \div 2 + 1, Len(s)))

\* Python `w in t` for strings.
Contains(t, w) == \E i \in 1..(Len(t) - Len(w) + 1) : SubSeq(t, i, i + Len(w) - 1) = w

\* text starts with w at 1-based position i
StartsAt(s, i, w) == i + Len(w) - 1 <= Len(s) /\ SubSeq(s, i, i + Len(w) - 1) = w

(***************************************************************************)
(* json.loads on the JSON subset the sampled texts can contain: objects,   *)
(* arrays, strings without escapes, unsigned integers, true/false/null,    *)
(* whitespace.  The sampled texts hold no backslash, sign, fraction or     *)
(* exponent, so every text json.loads accepts is accepted here.            *)
(***************************************************************************)
Digits == {"0","1","2","3","4","5","6","7","8","9"}
DigitVal(c) == CHOOSE n \in 0..9 : <<"0","1","2","3","4","5","6","7","8","9">>[n + 1] = c

Fail(i) == [ok |-> FALSE, v |-> PyNone, j |-> i]
Ok(v, j) == [ok |-> TRUE, v |-> v, j |-> j]

\* position of the closing quote of a string whose body starts at i; 0 when
\* a control character or a backslash comes first, or no quote at all
StringEnd(s, i) ==
  LET stops == {j \in i..Len(s) : CharAt(s, j) \in {"\"", "\n", "\t", "\r", "\\"}} IN
  IF stops = {} THEN 0
  ELSE IF CharAt(s, Min(stops)) = "\"" THEN Min(stops) ELSE 0

ParseString(s, i) ==
  IF ~StartsAt(s, i, "\"") THEN Fail(i)
  ELSE LET e == StringEnd(s, i + 1)
       IN IF e = 0 THEN Fail(i) ELSE Ok(PyStr(SubSeq(s, i + 1, e - 1)), e + 1)

\* the first position at or after i that holds no digit
NumberEnd(s, i) ==
  Min({j \in i..Len(s) : CharAt(s, j) \notin Digits} \cup {Max({i, Len(s) + 1})})

RECURSIVE NumberVal(_, _, _)
NumberVal(s, i, e) == IF e <= i THEN 0 ELSE NumberVal(s, i, e - 1) * 10 + DigitVal(CharAt(s, e - 1))

\* an integer literal: "0", or a nonzero digit followed by digits
ParseNumber(s, i) ==
  IF i > Len(s) \/ CharAt(s, i) \notin Digits THEN Fail(i)
  ELSE IF CharAt(s, i) = "0" THEN Ok(PyNum(0), i + 1)
  ELSE LET e == NumberEnd(s, i) IN Ok(PyNum(NumberVal(s, i, e)), e)

RECURSIVE ParseValue(_, _)
RECURSIVE ParseMembers(_, _, _)
RECURSIVE ParseItems(_, _, _)

\* members of an object after "{" ws, the first key expected at i
ParseMembers(s, i, d) ==
  LET k == ParseString(s, i) IN
  IF ~k.ok THEN Fail(i)
  ELSE LET c == LStripFrom(s, k.j) IN
       IF ~StartsAt(s, c, ":") THEN Fail(i)
       ELSE LET v == ParseValue(s, LStripFrom(s, c + 1)) IN
            IF ~v.ok THEN Fail(i)
            ELSE LET d2 == DictSet(d, k.v.s, v.v)
                     n == LStripFrom(s, v.j)
                 IN IF StartsAt(s, n, "}") THEN Ok(d2, n + 1)
                    ELSE IF StartsAt(s, n, ",") THEN ParseMembers(s, LStripFrom(s, n + 1), d2)
                    ELSE Fail(i)

\* items of an array after "[" ws, the first item expected at i
ParseItems(s, i, items) ==
  LET v == ParseValue(s, i) IN
  IF ~v.ok THEN Fail(i)
  ELSE LET n == LStripFrom(s, v.j) IN
       IF StartsAt(s, n, "]") THEN Ok(PyList(Append(items, v.v)), n + 1)
       ELSE IF StartsAt(s, n, ",") THEN ParseItems(s, LStripFrom(s, n + 1), Append(items, v.v))
       ELSE Fail(i)

ParseValue(s, i) ==
  IF i > Len(s) THEN Fail(i)
  ELSE IF StartsAt(s, i, "{") THEN
         LET n == LStripFrom(s, i + 1) IN
         IF StartsAt(s, n, "}") THEN Ok(EmptyDict, n + 1) ELSE ParseMembers(s, n, EmptyDict)
  ELSE IF StartsAt(s, i, "[") THEN
         LET n == LStripFrom(s, i + 1) IN
         IF StartsAt(s, n, "]") THEN Ok(PyList(<<>>), n + 1) ELSE ParseItems(s, n, <<>>)
  ELSE IF StartsAt(s, i, "\"") THEN ParseString(s, i)
  ELSE IF StartsAt(s, i, "null") THEN Ok(PyNone, i + 4)
  ELSE IF StartsAt(s, i, "true") THEN Ok(PyBool(TRUE), i + 4)
  ELSE IF StartsAt(s, i, "false") THEN Ok(PyBool(FALSE), i + 5)
  ELSE ParseNumber(s, i)

\* json.loads(s): [ok |-> decoded?, v |-> the value]
json_loads(s) ==
  LET r == ParseValue(s, LStripFrom(s, 1)) IN
  IF r.ok /\ LStripFrom(s, r.j) = Len(s) + 1 THEN [ok |-> TRUE, v |-> r.v]
  ELSE [ok |-> FALSE, v |-> PyNone]

Decodes(s) == json_loads(s).ok

(***************************************************************************)
(* summarize.py: _extract_json_block, _safe_json_parse                     *)
(***************************************************************************)
\* smallest position >= i at which w occurs in s, or 0
FindFrom(s, w, i) ==
  LET at == {j \in i..(Len(s) - Len(w) + 1) : StartsAt(s, j, w)} IN
  IF at = {} THEN 0 ELSE Min(at)

\* [m.start() for m in re.finditer(c, text)] for a one-character pattern:
\* the positions of c, ascending (1-based)
Positions(s, c, i) ==
  LET at == {j \in i..Len(s) : CharAt(s, j) = c} IN
  [k \in 1..Cardinality(at) |-> CHOOSE j \in at : Cardinality({x \in at : x <= j}) = k]

\* A TLA+ string cannot hold a backquote: in every text of this model the
\* character ~ stands for the backquote, and no text holds a real tilde.
BQ == "~"
Fence == BQ \o BQ \o BQ

\* re.search of line 21 (fence, optional json tag, white space, lazy group,
\* white space, fence; IGNORECASE): the match starts at the first fence;
\* the optional tag and the white space after it are taken greedily;
\* group(1) runs lazily to the white space before the next fence.
\* [found, g] with g = m.group(1).
FenceSearch(text) ==
  LET p == FindFrom(text, Fence, 1)
      tagged == p # 0 /\ p + 6 <= Len(text) /\ Lower(SubSeq(text, p + 3, p + 6)) = "json"
      a == IF p = 0 THEN 0 ELSE LStripFrom(text, IF tagged THEN p + 7 ELSE p + 3)
      q == IF p = 0 THEN 0 ELSE FindFrom(text, Fence, a)
  IN IF p = 0 \/ q = 0 THEN [found |-> FALSE, g |-> ""]
     ELSE [found |-> TRUE, g |-> RStrip(SubSeq(text, a, q - 1))]

\* lines 21-25: the stripped group of the fence match when it decodes
FenceStrategy(text) ==
  LET tried(m, cand) == IF m.found /\ Decodes(cand) THEN PyStr(cand) ELSE PyNone
      matched(m) == tried(m, Strip(m.g))
  IN matched(FenceSearch(text))

\* lines 28-29: the (i, j) index pairs the two loops visit, 1-based:
\* i over the opening braces, j from the last closing brace down to index i
ScanPairs(opens, closes) ==
  {<<i, j>> \in (1..Len(opens)) \X (1..Len(closes)) : j >= i}

\* line 30: s = text[opens[i]:closes[j]+1]
Span(text, opens, closes, ij) ==
  IF closes[ij[2]] < opens[ij[1]] THEN "" ELSE SubSeq(text, opens[ij[1]], closes[ij[2]])

\* visit order of the loops: i ascending, then j descending
Before(a, b) == a[1] < b[1] \/ (a[1] = b[1] /\ a[2] > b[2])

\* lines 26-32: first visited span that decodes
BraceStrategy(text) ==
  LET opens == Positions(text, "{", 1)
      closes == Positions(text, "}", 1)
      first(hits) ==
        IF hits = {} THEN PyNone
        ELSE PyStr(Span(text, opens, closes,
                        CHOOSE ij \in hits : \A o \in hits : o = ij \/ Before(ij, o)))
  IN first({ij \in ScanPairs(opens, closes) : Decodes(Span(text, opens, closes, ij))})

\* lines 33-35: the whole trimmed text
WholeStrategy(text) == IF Decodes(Strip(text)) THEN PyStr(Strip(text)) ELSE PyNone

\* the block a strategy found, else what the next strategy gives
OrElse(found, next) == IF found # PyNone THEN found ELSE next

\* _extract_json_block with the brace scan tried before the fenced block
_extract_json_block_BraceFirst(text) ==
  IF Len(text) = 0 THEN PyNone
  ELSE OrElse(BraceStrategy(text), OrElse(FenceStrategy(text), WholeStrategy(text)))

\* lines 19-35; returns PyStr(block) or PyNone
_extract_json_block(text) ==
  IF Len(text) = 0 THEN PyNone
  ELSE OrElse(FenceStrategy(text), OrElse(BraceStrategy(text), WholeStrategy(text)))

\* lines 37-45; the result is whatever json.loads gave, of any JSON type
_safe_json_parse(text) ==
  LET loaded(r) == IF r.ok THEN r.v ELSE EmptyDict
      fromBlock(block) == IF Truthy(block) THEN loaded(json_loads(block.s)) ELSE EmptyDict
      parsed(whole) == IF whole.ok THEN whole.v ELSE fromBlock(_extract_json_block(text))
  IN IF Len(text) = 0 THEN EmptyDict ELSE parsed(json_loads(text))

(***************************************************************************)
(* summarize.py: _shorten, _cap_text, _read_principles, _coerce_schema     *)
(***************************************************************************)
\* A TLA+ string holds ASCII only: "_" stands for the one-character ellipsis
\* U+2026 and "-" for the em dash U+2014 of the source.
ELLIPSIS == "_"
EMDASH == "-"

NoteLimit == 220
CapLimit == 800
StrongOver == 120
AverageOver == 40

\* lines 47-50 with the default n
_shorten(s) ==
  IF Len(s) = 0 THEN ""
  ELSE LET t == Strip(s) IN
       IF Len(t) <= NoteLimit THEN t ELSE RStrip(SubSeq(t, 1, NoteLimit)) \o ELLIPSIS

\* lines 52-55
_cap_text(s, max_len) ==
  IF Len(s) = 0 THEN ""
  ELSE LET t == Strip(s) IN
       IF Len(t) <= max_len THEN t ELSE RStrip(SubSeq(t, 1, max_len)) \o ELLIPSIS

\* lines 57-71.  file is PyStr(content) of PRINCIPLES_FILE, PyNone when the
\* file does not exist.
_read_principles(file) == IF file = PyNone THEN "" ELSE Strip(file.s)

RECURSIVE splitlines(_)
\* str.splitlines on texts whose only line boundary is "\n"
splitlines(s) ==
  IF Len(s) = 0 THEN <<>>
  ELSE LET n == FindFrom(s, "\n", 1) IN
       IF n = 0 THEN <<s>>
       ELSE <<SubSeq(s, 1, n - 1)>> \o splitlines(SubSeq(s, n + 1, Len(s)))

\* line 125, re.match: optional white space, a bullet - or * or digits and a
\* period, optional white space, then at least one character.  The position
\* after the list marker, 0 when the line has no marker.
AfterMarker(line) ==
  LET i == LStripFrom(line, 1)
      e == NumberEnd(line, i)
  IN IF i <= Len(line) /\ CharAt(line, i) \in {"-", "*"} THEN i + 1
     ELSE IF e > i /\ StartsAt(line, e, ".") THEN e + 1
     ELSE 0

\* lines 123-126: the names of the list items, in order
RECURSIVE PrincipleNames(_, _)
PrincipleNames(lines, k) ==
  IF k > Len(lines) THEN <<>>
  ELSE LET a == AfterMarker(lines[k]) IN
       (IF a # 0 /\ a <= Len(lines[k])
        THEN <<Strip(SubSeq(lines[k], a, Len(lines[k])))>> ELSE <<>>)
       \o PrincipleNames(lines, k + 1)

\* lines 77-81.  An absent key and a None value read alike.
pick(answers, keys) ==
  LET found == {k \in 1..Len(keys) : Truthy(DictGet(answers, keys[k], PyNone))} IN
  IF found = {} THEN ""
  ELSE DictGet(answers, keys[CHOOSE k \in found : \A o \in found : k <= o], PyNone).s

AnyIn(t, words) == \E w \in words : Contains(t, w)

\* lines 84-90 with the date keywords tried before the ready keywords
InferReadiness_DateFirst(answers) ==
  LET readiness_text == pick(answers, <<"readiness">>)
      t == Lower(readiness_text)
  IN IF Len(readiness_text) = 0 THEN "unknown"
     ELSE IF AnyIn(t, {"week", "month", " from ", "start "}) THEN "date"
     ELSE IF AnyIn(t, {"immediate", "ready", "now"}) THEN "ready_now"
     ELSE IF AnyIn(t, {"prep", "support", "refresh", "not ready"}) THEN "needs_prep"
     ELSE "unknown"

\* lines 84-90
InferReadiness(answers) ==
  LET readiness_text == pick(answers, <<"readiness">>)
      t == Lower(readiness_text)
  IN IF Len(readiness_text) = 0 THEN "unknown"
     ELSE IF AnyIn(t, {"immediate", "ready", "now"}) THEN "ready_now"
     ELSE IF AnyIn(t, {"week", "month", " from ", "start "}) THEN "date"
     ELSE IF AnyIn(t, {"prep", "support", "refresh", "not ready"}) THEN "needs_prep"
     ELSE "unknown"

\* lines 93-99 with thresholds that admit the bound itself
Suitability_AtLeast(raw, answers) ==
  LET suitability == DictGet(raw, "suitability", PyNone)
      mot == pick(answers, <<"why_lunartech", "motivation">>)
      exp == pick(answers, <<"experience">>)
  IN IF suitability \in {PyStr("strong"), PyStr("average"), PyStr("weak")} THEN suitability
     ELSE IF Len(mot) >= StrongOver \/ Len(exp) >= StrongOver THEN PyStr("strong")
     ELSE IF Len(mot) >= AverageOver \/ Len(exp) >= AverageOver THEN PyStr("average")
     ELSE PyStr("weak")

\* lines 93-99
Suitability(raw, answers) ==
  LET suitability == DictGet(raw, "suitability", PyNone)
      mot == pick(answers, <<"why_lunartech", "motivation">>)
      exp == pick(answers, <<"experience">>)
  IN IF suitability \in {PyStr("strong"), PyStr("average"), PyStr("weak")} THEN suitability
     ELSE IF Len(mot) > StrongOver \/ Len(exp) > StrongOver THEN PyStr("strong")
     ELSE IF Len(mot) > AverageOver \/ Len(exp) > AverageOver THEN PyStr("average")
     ELSE PyStr("weak")

\* the source keys tried for each of the five fields (lines 103-107)
FieldNames == <<"background", "why_lunartech", "experience", "future_goals", "readiness">>
SourceKeys(field) ==
  CASE field = "background" -> <<"background", "full_name_background">>
    [] field = "why_lunartech" -> <<"why_lunartech", "motivation">>
    [] field = "experience" -> <<"experience">>
    [] field = "future_goals" -> <<"future_goals", "goals">>
    [] field = "readiness" -> <<"readiness">>

\* lines 102-108
RawAnswers(answers) ==
  PyDict(FieldNames, [i \in 1..5 |-> PyStr(pick(answers, SourceKeys(FieldNames[i])))])

\* lines 109-115, notes being a dict
Notes(notes, answers) ==
  PyDict(FieldNames,
         [i \in 1..5 |-> PyOr(DictGet(notes, FieldNames[i], PyNone),
                              PyStr(_shorten(pick(answers, SourceKeys(FieldNames[i])))))])

RECURSIVE Alignment(_, _, _, _)
\* line 128: the dict comprehension over principle_names, pa being a dict;
\* a name met again overwrites the entry it already has
Alignment(pa, names, k, acc) ==
  IF k > Len(names) THEN acc
  ELSE Alignment(pa, names, k + 1, DictSet(acc, names[k], DictGet(pa, names[k], PyStr(""))))

DefaultEvaluation == "Automated notes generated; consider human review for final decision."

Raised(exc) == [raised |-> TRUE, exc |-> exc, value |-> PyNone]
Returned(v) == [raised |-> FALSE, exc |-> "", value |-> v]

\* lines 74-130.  raw is any Python value, answers a dict, file the principles
\* file.  An attribute lookup of .get on a value that is no dict raises
\* AttributeError: raw at line 75, notes at line 110, pa at line 128 (met
\* only when there is a principle name to look up).
_coerce_schema(raw, answers, file) ==
  IF raw.t # "dict" THEN Raised("AttributeError")
  ELSE LET notes == PyOr(DictGet(raw, "notes", PyNone), EmptyDict)
           names == PrincipleNames(splitlines(_read_principles(file)), 1)
           pa == PyOr(DictGet(raw, "principles_alignment", PyNone), EmptyDict)
       IN IF notes.t # "dict" THEN Raised("AttributeError")
          ELSE IF pa.t # "dict" /\ Len(names) > 0 THEN Raised("AttributeError")
          ELSE Returned(PyDict(
                 <<"raw_answers", "notes", "evaluation", "suitability",
                   "readiness_flag", "principles_alignment">>,
                 << RawAnswers(answers),
                    Notes(notes, answers),
                    PyOr(DictGet(raw, "evaluation", PyNone), PyStr(DefaultEvaluation)),
                    Suitability(raw, answers),
                    PyOr(DictGet(raw, "readiness_flag", PyNone), PyStr(InferReadiness(answers))),
                    IF pa.t = "dict" THEN Alignment(pa, names, 1, EmptyDict) ELSE EmptyDict >>))


(***************************************************************************)
(* config.py                                                               *)
(***************************************************************************)
\* os.getenv(name, default) on an environment variable that is PyNone when
\* unset
getenv(value, default) == IF value = PyNone THEN default ELSE value

\* the module body of config.py, run once at import.  status is "loaded", or
\* "ValueError" when lines 50-51 reject the backend.
LoadConfigModule(env) ==
  LET backend == Lower(getenv(env.LLM_BACKEND, PyStr("mistral")).s) IN
  [ status |-> IF backend \notin {"openai", "mistral"} THEN "ValueError" ELSE "loaded",
    USE_LLM_SUMMARY |-> TRUE,
    LLM_BACKEND |-> backend,
    OPENAI_API_KEY |-> getenv(env.OPENAI_API_KEY, PyNone),
    OPENAI_MODEL |-> "gpt-4o-mini",
    OPENAI_FALLBACK_MODEL |-> getenv(env.OPENAI_FALLBACK_MODEL, PyStr("gpt-4o")).s,
    MISTRAL_API_KEY |-> getenv(env.MISTRAL_API_KEY, PyNone),
    MISTRAL_MODEL |-> "mistral-medium-latest" ]

(***************************************************************************)
(* llm.py                                                                  *)
(***************************************************************************)
ENABLE_CACHE == TRUE

\* line 16: the text whose SHA-256 digest names the cache file.  The digest
\* is taken as injective, so the hashed text itself identifies the file.
_cache_path(prompt, model) == model \o "\n" \o prompt

\* the cache directory: a function from the paths of the files that exist to
\* PyStr(content)
NoFiles == [p \in {} |-> PyNone]
FileAt(files, p) == IF p \in DOMAIN files THEN files[p] ELSE PyNone
WriteFile(files, p, content) ==
  [q \in DOMAIN files \cup {p} |-> IF q = p THEN PyStr(content) ELSE files[q]]

\* lines 19-26.  readable is FALSE when open/read of the existing file fails.
_cache_get(files, prompt, model, readable) ==
  IF ~ENABLE_CACHE THEN PyNone
  ELSE LET p == _cache_path(prompt, model) IN
       IF p \in DOMAIN files
       THEN (IF readable THEN files[p] ELSE PyNone)
       ELSE PyNone

\* _cache_set that never writes
_cache_set_Never(files, prompt, model, txt, write) == files

\* lines 28-33: the files after the call.  write is "ok", "open_failed" (the
\* directory is left as it was) or "write_failed" (open created or truncated
\* the file, the write then failed); every failure is swallowed.
_cache_set(files, prompt, model, txt, write) ==
  IF ~ENABLE_CACHE THEN files
  ELSE LET p == _cache_path(prompt, model) IN
       CASE write = "ok" -> WriteFile(files, p, txt)
         [] write = "open_failed" -> files
         [] write = "write_failed" -> WriteFile(files, p, "")

NoClient == [status |-> "none"]

\* OpenAI(api_key=..., timeout=...) of the openai package (line 47): with
\* api_key None it reads OPENAI_API_KEY from the environment, the variable
\* config.py read, and raises OpenAIError when that is unset too.
OpenAIConstructorRaises(api_key) == api_key = PyNone

\* __init__ that checks no credential and leaves a missing one to the first call
LLMClient_init_Deferred(cfg) ==
  IF cfg.LLM_BACKEND = "openai"
  THEN [status |-> "ok", backend |-> "openai", primary_model |-> cfg.OPENAI_MODEL,
        fallback_model |-> cfg.OPENAI_FALLBACK_MODEL, model |-> ""]
  ELSE [status |-> "ok", backend |-> "mistral", primary_model |-> "",
        fallback_model |-> "", model |-> cfg.MISTRAL_MODEL]

\* lines 39-57: [status |-> "ok", ...attributes] or [status |-> exception]
LLMClient_init(cfg) ==
  IF cfg.LLM_BACKEND = "openai" THEN
    IF OpenAIConstructorRaises(cfg.OPENAI_API_KEY)
    THEN [status |-> "OpenAIError"]
    ELSE [status |-> "ok", backend |-> "openai",
          primary_model |-> cfg.OPENAI_MODEL,
          fallback_model |-> cfg.OPENAI_FALLBACK_MODEL,
          model |-> ""]
  ELSE IF cfg.LLM_BACKEND = "mistral" THEN
    IF ~Truthy(cfg.MISTRAL_API_KEY)
    THEN [status |-> "RuntimeError"]
    ELSE [status |-> "ok", backend |-> "mistral",
          primary_model |-> "", fallback_model |-> "",
          model |-> cfg.MISTRAL_MODEL]
  ELSE [status |-> "ValueError"]

\* one request to a provider: [model, ok]
NetCall(model, outcome) == [model |-> model, ok |-> outcome # PyNone]

\* lines 99-111 with a second attempt on the mistral backend as well
CallBackend_MistralRetries(self, first, second) ==
  LET p == IF self.backend = "openai" THEN self.primary_model ELSE self.model
      m == IF self.backend = "openai" THEN self.fallback_model ELSE self.model
  IN IF first # PyNone
     THEN [raised |-> FALSE, txt |-> first.s, net |-> <<NetCall(p, first)>>]
     ELSE [raised |-> second = PyNone,
           txt |-> IF second = PyNone THEN "" ELSE second.s,
           net |-> <<NetCall(p, first), NetCall(m, second)>>]

\* lines 99-111: the provider calls of one generate.  first and second are
\* what the first and the second request would give: PyStr(text), or PyNone
\* when the request fails.  [raised, txt, net: the requests made, in order]
CallBackend(self, first, second) ==
  IF self.backend = "openai" THEN
    IF first # PyNone
    THEN [raised |-> FALSE, txt |-> first.s, net |-> <<NetCall(self.primary_model, first)>>]
    ELSE IF Len(self.fallback_model) > 0
    THEN [raised |-> second = PyNone,
          txt |-> IF second = PyNone THEN "" ELSE second.s,
          net |-> <<NetCall(self.primary_model, first), NetCall(self.fallback_model, second)>>]
    ELSE [raised |-> TRUE, txt |-> "", net |-> <<NetCall(self.primary_model, first)>>]
  ELSE IF self.backend = "mistral" THEN
    [raised |-> first = PyNone,
     txt |-> IF first = PyNone THEN "" ELSE first.s,
     net |-> <<NetCall(self.model, first)>>]
  ELSE [raised |-> TRUE, txt |-> "", net |-> <<>>]

NoCall == [prompt |-> ""]

\* the part of a generate result the log keeps
CallRecord(r) ==
  [ prompt |-> r.prompt, model |-> r.model, raised |-> r.raised, txt |-> r.txt,
    net |-> r.net, hit |-> r.hit, readFailed |-> r.readFailed, wrote |-> r.wrote ]

\* generate that writes the cache entry in every case, also when it raises
generate_StoresOnRaise(self, files, prompt, io) ==
  LET model == IF self.backend = "openai" THEN self.primary_model ELSE self.model
      cached == _cache_get(files, prompt, model, io.readable)
      call == CallBackend(self, io.first, io.second)
      base == [prompt |-> prompt, model |-> model,
               readFailed |-> _cache_path(prompt, model) \in DOMAIN files /\ ~io.readable]
  IN IF cached # PyNone
     THEN base @@ [raised |-> FALSE, txt |-> cached.s, net |-> <<>>, hit |-> TRUE,
                   wrote |-> FALSE, files |-> files]
     ELSE base @@ [raised |-> call.raised, txt |-> call.txt, net |-> call.net, hit |-> FALSE,
                   wrote |-> io.write = "ok",
                   files |-> _cache_set(files, prompt, model, call.txt, io.write)]

\* lines 91-114: one call of generate.  io gives what the environment does
\* during the call: readable (the cache file can be read), first and second
\* (see CallBackend), write (see _cache_set).
\* [raised, txt, net, hit, readFailed, wrote, files: the cache afterwards]
generate(self, files, prompt, io) ==
  LET model == IF self.backend = "openai" THEN self.primary_model ELSE self.model
      cached == _cache_get(files, prompt, model, io.readable)
      call == CallBackend(self, io.first, io.second)
      base == [prompt |-> prompt, model |-> model,
               readFailed |-> _cache_path(prompt, model) \in DOMAIN files /\ ~io.readable]
  IN IF cached # PyNone
     THEN base @@ [raised |-> FALSE, txt |-> cached.s, net |-> <<>>, hit |-> TRUE,
                   wrote |-> FALSE, files |-> files]
     ELSE IF call.raised
     THEN base @@ [raised |-> TRUE, txt |-> "", net |-> call.net, hit |-> FALSE,
                   wrote |-> FALSE, files |-> files]
     ELSE base @@ [raised |-> FALSE, txt |-> call.txt, net |-> call.net, hit |-> FALSE,
                   wrote |-> io.write = "ok",
                   files |-> _cache_set(files, prompt, model, call.txt, io.write)]

(***************************************************************************)
(* summarize.py: _render_markdown, _template_summary, _llm_summary,        *)
(* summarize_session                                                       *)
(***************************************************************************)
RECURSIVE PyRepr(_)
RECURSIVE ReprItems(_, _)
RECURSIVE ReprMembers(_, _)

\* repr(v); the sampled strings hold no quote and no backslash
PyRepr(v) ==
  CASE v.t = "none" -> "None"
    [] v.t = "bool" -> (IF v.b THEN "True" ELSE "False")
    [] v.t = "num" -> ToString(v.n)
    [] v.t = "str" -> "'" \o v.s \o "'"
    [] v.t = "list" -> "[" \o ReprItems(v.items, 1) \o "]"
    [] v.t = "dict" -> "{" \o ReprMembers(v, 1) \o "}"

ReprItems(items, i) ==
  IF i > Len(items) THEN ""
  ELSE (IF i > 1 THEN ", " ELSE "") \o PyRepr(items[i]) \o ReprItems(items, i + 1)

ReprMembers(d, i) ==
  IF i > Len(d.keys) THEN ""
  ELSE (IF i > 1 THEN ", " ELSE "") \o "'" \o d.keys[i] \o "': " \o PyRepr(d.vals[i])
       \o ReprMembers(d, i + 1)

\* str(v), as an f-string formats a value
PyToStr(v) == IF v.t = "str" THEN v.s ELSE PyRepr(v)

RECURSIVE JoinLines(_, _)
\* "\n".join(lines)
JoinLines(lines, i) ==
  IF i > Len(lines) THEN ""
  ELSE (IF i > 1 THEN "\n" ELSE "") \o lines[i] \o JoinLines(lines, i + 1)

\* lines 132-157, for a summary that holds notes, evaluation, suitability,
\* readiness_flag and principles_alignment
_render_markdown(summary) ==
  LET n == DictGet(summary, "notes", EmptyDict)
      note(k) == PyToStr(DictGet(n, k, PyStr("")))
      pa == DictGet(summary, "principles_alignment", PyNone)
      head ==
        << "### Candidate Review (Condensed)",
           "- **Background:** " \o note("background"),
           "- **Why LunarTech:** " \o note("why_lunartech"),
           "- **Experience:** " \o note("experience"),
           "- **Goals:** " \o note("future_goals"),
           "- **Readiness:** " \o note("readiness") \o "  (_flag_: "
              \o PyToStr(DictGet(summary, "readiness_flag", PyStr("unknown"))) \o ")",
           "",
           "**Evaluation:** " \o PyToStr(DictGet(summary, "evaluation", PyStr(""))),
           "**Suitability:** " \o Upper(DictGet(summary, "suitability", PyStr("unknown")).s),
           "",
           "_Full raw answers are stored in the session JSON under "
              \o BQ \o "summary.raw_answers" \o BQ \o "._" >>
      tail ==
        IF Truthy(pa)
        THEN <<"\n### Principles Alignment">> \o
             [i \in 1..Len(pa.keys) |->
                "- **" \o pa.keys[i] \o ":** " \o PyToStr(PyOr(pa.vals[i], PyStr(EMDASH)))]
        ELSE <<>>
  IN JoinLines(head \o tail, 1)

TemplateEvaluation ==
  "Template summary: Candidate provided responses. Enable LLM summaries for richer evaluation."

\* session.get("answers", {}) or {}
SessionAnswers(session) == PyOr(DictGet(session, "answers", EmptyDict), EmptyDict)

\* lines 161-166: [raised, exc, md, record, built: the dict _coerce_schema
\* returned at line 163, as it was when it returned]
_template_summary(session, file) ==
  LET rendered(built, structured) ==
        [raised |-> FALSE, exc |-> "", md |-> _render_markdown(structured),
         record |-> structured, built |-> built]
      coerced(c) ==
        IF c.raised
        THEN [raised |-> TRUE, exc |-> c.exc, md |-> "", record |-> PyNone, built |-> PyNone]
        ELSE rendered(c.value, DictSet(c.value, "evaluation", PyStr(TemplateEvaluation)))
  IN coerced(_coerce_schema(EmptyDict, SessionAnswers(session), file))

\* json.dumps(d, ensure_ascii=False) of a dict of strings that need no escape
RECURSIVE DumpMembers(_, _)
DumpMembers(d, i) ==
  IF i > Len(d.keys) THEN ""
  ELSE (IF i > 1 THEN ", " ELSE "") \o "\"" \o d.keys[i] \o "\": \"" \o d.vals[i].s \o "\""
       \o DumpMembers(d, i + 1)
json_dumps(d) == "{" \o DumpMembers(d, 1) \o "}"

RECURSIVE CapAnswers(_, _, _)
\* line 221: {k: _cap_text(v, cap) for k, v in answers.items() if v}
CapAnswers(a, i, acc) ==
  IF i > Len(a.keys) THEN acc
  ELSE CapAnswers(a, i + 1,
         IF Truthy(a.vals[i]) THEN DictSet(acc, a.keys[i], PyStr(_cap_text(a.vals[i].s, CapLimit)))
         ELSE acc)

_SYSTEM ==
  "You are an admissions assistant for a data/AI bootcamp. "
  \o "Return STRICT JSON only. Do not include any prose outside JSON."

\* lines 175-215 and 225-229: the prompt.  Of the fixed text of _USER_FMT
\* only the two headings that precede the inserted fields are kept.
BuildPrompt(answers_capped, principles_text) ==
  _SYSTEM \o "\n\n"
  \o "Interview answers (JSON-like; keys may vary):\n" \o json_dumps(answers_capped)
  \o "\n\nEvaluation principles (markdown list items):\n"
  \o (IF Len(principles_text) > 0 THEN principles_text ELSE "(no principles provided)")

SummaryRaised(exc, files, made, gen) ==
  [ raised |-> TRUE, exc |-> exc, md |-> "", record |-> PyNone, built |-> PyNone,
    files |-> files, constructed |-> made, gen |-> gen ]

\* lines 217-233: [raised, exc, md, record, built: the dict _coerce_schema
\* returned at line 232, files: the cache afterwards,
\* constructed: a client was built, gen: the generate call made (NoCall when
\* none was made)]
_llm_summary(session, cfg, files, file, io) ==
  LET answers == SessionAnswers(session)
      \* lines 231-233, c being what _coerce_schema gave
      coerced(g, c) ==
        IF c.raised THEN SummaryRaised(c.exc, g.files, TRUE, CallRecord(g))
        ELSE [ raised |-> FALSE, exc |-> "", md |-> _render_markdown(c.value),
               record |-> c.value, built |-> c.value, files |-> g.files,
               constructed |-> TRUE,
               gen |-> CallRecord(g) ]
      \* lines 229-231, g being what client.generate gave
      generated(g) ==
        IF g.raised THEN SummaryRaised("GenerationError", g.files, TRUE, CallRecord(g))
        ELSE coerced(g, _coerce_schema(_safe_json_parse(g.txt), answers, file))
      \* lines 223-229, made being what LLMClient() gave
      constructed(made) ==
        IF made.status # "ok" THEN SummaryRaised(made.status, files, FALSE, NoCall)
        ELSE generated(generate(made, files,
                                BuildPrompt(CapAnswers(answers, 1, EmptyDict),
                                            _read_principles(file)),
                                io))
  IN constructed(LLMClient_init(cfg))

\* summarize_session that lets the failure of _llm_summary reach its caller
summarize_session_NoRecovery(session, cfg, files, file, io) ==
  _llm_summary(session, cfg, files, file, io) @@ [mode |-> "llm", caught |-> ""]

\* lines 237-244: the result of _llm_summary or of _template_summary, with
\* mode "llm" or "template" and caught, the exception line 242 caught
summarize_session(session, cfg, files, file, io) ==
  LET template(fs, made, gen, exc) ==
        _template_summary(session, file) @@
        [files |-> fs, constructed |-> made, gen |-> gen, mode |-> "template", caught |-> exc]
      tried(l) ==
        IF l.raised THEN template(l.files, l.constructed, l.gen, l.exc)
        ELSE l @@ [mode |-> "llm", caught |-> ""]
  IN IF ~cfg.USE_LLM_SUMMARY THEN template(files, FALSE, NoCall, "")
     ELSE tried(_llm_summary(session, cfg, files, file, io))

\* faq.py lines 61-71, faq_pairs being a list of question/answer dicts
RECURSIVE FaqLines(_, _)
FaqLines(pairs, i) ==
  IF i > Len(pairs) THEN <<>>
  ELSE <<"- **Q:** " \o DictGet(pairs[i], "question", PyNone).s \o
         "\n  **A:** " \o DictGet(pairs[i], "answer", PyNone).s>>
       \o FaqLines(pairs, i + 1)

render_faq_md(faq_pairs) ==
  IF ~Truthy(faq_pairs) THEN ""
  ELSE JoinLines(<<"\n### Candidate Q&A\n">> \o FaqLines(faq_pairs.items, 1), 1)

\* logger.py lines 16-23: the payload written to the session file, without
\* its saved_at time stamp
save_session_json(session_obj, summary_json) ==
  [session |-> session_obj, summary |-> summary_json]

\* main.py lines 76-99, r being what summarize_session gave: [printed: the
\* markdown shown, saved: the payload written; nothing is written when
\* summarize_session raised]
run_interview_summary(session, faq_pairs, r) ==
  LET held == IF Truthy(faq_pairs) THEN DictSet(session, "faq", faq_pairs) ELSE session
      faq_md == render_faq_md(faq_pairs)
      extended == Truthy(faq_pairs) /\ Len(faq_md) > 0
  IN IF r.raised THEN [printed |-> "", saved |-> PyNone]
     ELSE [ printed |-> IF extended THEN r.md \o "\n---\n" \o faq_md ELSE r.md,
            saved |-> save_session_json(
                        held,
                        IF extended THEN DictSet(r.record, "faq_markdown", PyStr(faq_md))
                        ELSE r.record) ]

(***************************************************************************)
(* interview.py: InterviewAgent                                            *)
(***************************************************************************)
MIN_ANSWER_CHARS == 5

\* lines 4-10
REQUIRED_QUESTIONS ==
  << [key |-> "background",
      text |-> "Tell us your background and journey. What inspires you to pursue data science or AI?"],
     [key |-> "why_company",
      text |-> "What motivates you to learn at [Company Name] specifically?"],
     [key |-> "experience",
      text |-> "What hands-on projects or technical experiences have you completed so far?"],
     [key |-> "future_goals",
      text |-> "What are your goals after completing the bootcamp? How do you hope to make an impact?"],
     [key |-> "readiness",
      text |-> "Are you ready to start? If not, what support or prep would help you feel fully prepared?"] >>

\* lines 13-17; a turn is kept without its time stamp
InterviewAgent_init ==
  [questions |-> REQUIRED_QUESTIONS, answers |-> EmptyDict, turns |-> <<>>, index |-> 0]

\* lines 83-84
_log_turn(self, role, text) ==
  [self EXCEPT !.turns = Append(@, [role |-> role, text |-> text])]

\* lines 19-20; the apostrophe of the greeting is written in ASCII
start(self) ==
  _log_turn(self, "agent", "Hello! I'll ask a few questions to learn about you.")

\* lines 25-29: the agent after the call (the question returned is
\* self.questions[index] of the agent before it)
next_question(self) ==
  [_log_turn(self, "agent", self.questions[self.index + 1].text) EXCEPT !.index = @ + 1]

\* lines 33-43, text being a str
_too_short(text) ==
  Len(Strip(text)) = 0 \/ Len(Strip(text)) < MIN_ANSWER_CHARS

\* lines 45-64; typed is what input() gives when the agent asks again
record_answer(self, key, user_text, typed) ==
  LET saved(s, final) == [s EXCEPT !.answers = DictSet(@, key, PyStr(final))]
      again(s, second) ==
        saved(_log_turn(s, "user", second),
              IF Len(second) = 0 THEN "(no response provided)" ELSE second)
      logged(s) ==
        IF _too_short(user_text)
        THEN again(_log_turn(s, "agent",
                             "I didn't quite catch that. Could you add a bit more detail?"),
                   Strip(typed))
        ELSE saved(s, user_text)
  IN logged(_log_turn(self, "user", user_text))

\* lines 74-79 (build_session)
build_session(self) ==
  PyDict(<<"metadata", "answers", "turns">>,
         << PyDict(<<"project", "version">>, <<PyStr("AI Interview Agent"), PyStr("0.1.0")>>),
            self.answers,
            PyList([i \in 1..Len(self.turns) |->
                      PyDict(<<"role", "text">>,
                             <<PyStr(self.turns[i].role), PyStr(self.turns[i].text)>>)]) >>)

(***************************************************************************)
(* State                                                                   *)
(***************************************************************************)
VARIABLES
  text,        \* the model text handed to the extraction functions
  extracted,   \* what the extraction call returned, NotRun before it
  env,         \* the process environment variables config.py reads
  config,      \* the attributes of the config module, NotLoaded before import
  files,       \* the files of CACHE_DIR
  client,      \* the LLMClient in use, NoClient before construction
  last,        \* the latest generate call: its result record, NoCall before
  prev,        \* the generate call before the latest
  principles,  \* PRINCIPLES_FILE: PyStr(content), PyNone when it does not exist
  raw,         \* the raw argument of a direct _coerce_schema call
  answers,     \* the answers argument of that call
  structured,  \* what the call gave, NotRun before it
  session,     \* the session handed to summarize_session
  summary,     \* what the latest summarize_session call gave, NotRun before
  runs,        \* the number of summarize_session calls made so far
  agent        \* the InterviewAgent of run_interview, NoAgent before it is made

extractVars == <<text, extracted>>
llmVars == <<env, config, files, client, last, prev>>
coerceVars == <<principles, raw, answers, structured>>
sumVars == <<session, summary, runs>>
interviewVars == <<agent>>
vars == <<extractVars, llmVars, coerceVars, sumVars, interviewVars>>

NotRun == [run |-> "no"]

ExtractIdle ==
  /\ text = ""
  /\ extracted = NotRun

CoerceIdle ==
  /\ principles = PyNone
  /\ raw = EmptyDict
  /\ answers = EmptyDict
  /\ structured = NotRun

SumIdle ==
  /\ session = EmptyDict
  /\ summary = NotRun
  /\ runs = 0

NoAgent == [index |-> -1]
InterviewIdle == agent = NoAgent

(***************************************************************************)
(* The LLM client under every environment                                  *)
(***************************************************************************)
NotLoaded == [status |-> "not_loaded"]

\* values of the environment variables, PyNone for an unset one.  The
\* variables of the backend that is not selected are left unset: the client
\* never reads them.
Envs ==
  { e \in [ LLM_BACKEND : {PyNone, PyStr("OpenAI"), PyStr("mistral"), PyStr("other")},
            OPENAI_API_KEY : {PyNone, PyStr(""), PyStr("sk-1")},
            OPENAI_FALLBACK_MODEL : {PyNone, PyStr("")},
            MISTRAL_API_KEY : {PyNone, PyStr(""), PyStr("mk-1")} ] :
      /\ e.LLM_BACKEND # PyStr("OpenAI")
           => e.OPENAI_API_KEY = PyNone /\ e.OPENAI_FALLBACK_MODEL = PyNone
      /\ e.LLM_BACKEND \notin {PyNone, PyStr("mistral")} => e.MISTRAL_API_KEY = PyNone }

DefaultEnv ==
  [ LLM_BACKEND |-> PyNone, OPENAI_API_KEY |-> PyNone,
    OPENAI_FALLBACK_MODEL |-> PyNone, MISTRAL_API_KEY |-> PyNone ]

LLMIdle ==
  /\ env = DefaultEnv
  /\ config = NotLoaded
  /\ files = NoFiles
  /\ client = NoClient
  /\ last = NoCall
  /\ prev = NoCall

MaxPrompts == 1
MaxTexts == 2

RECURSIVE Repeat(_, _)
\* Python c * n, by halves
Repeat(c, n) ==
  IF n <= 0 THEN ""
  ELSE LET h == Repeat(c, n \div 2) IN h \o h \o (IF n % 2 = 1 THEN c ELSE "")

\* the prompts and the provider texts of the client-level runs
LLMPrompts == {Repeat("p", i) : i \in 1..MaxPrompts}
LLMTexts == {Repeat("A", i) : i \in 1..MaxTexts}

\* what a request to the provider gives: a text, or PyNone for a failure
Outcomes(texts) == {PyNone} \cup {PyStr(t) : t \in texts}

\* what the environment can do during one generate call
IOs(texts) ==
  [ readable : BOOLEAN, first : Outcomes(texts), second : Outcomes(texts),
    write : {"ok", "open_failed", "write_failed"} ]

LLMInit ==
  /\ env \in Envs
  /\ config = NotLoaded
  /\ files = NoFiles
  /\ client = NoClient
  /\ last = NoCall
  /\ prev = NoCall
  /\ ExtractIdle
  /\ CoerceIdle
  /\ SumIdle
  /\ InterviewIdle

\* import app.config
LoadConfig ==
  /\ config = NotLoaded
  /\ config' = LoadConfigModule(env)
  /\ UNCHANGED <<env, files, client, last, prev, extractVars, coerceVars, sumVars, interviewVars>>

\* client = LLMClient(); an exception leaves no client
Construct ==
  /\ config.status = "loaded"
  /\ client' = LLMClient_init(config)
  /\ UNCHANGED <<env, config, files, last, prev, extractVars, coerceVars, sumVars, interviewVars>>

\* what is kept of the call before the latest; stored tells that the call
\* returned a text the cache could keep: it was a hit, or its write went well
Earlier(c) ==
  IF c = NoCall THEN NoCall
  ELSE [ prompt |-> c.prompt, raised |-> c.raised, txt |-> c.txt, calls |-> Len(c.net),
         stored |-> ~c.raised /\ (c.hit \/ c.wrote) ]

\* io names each environment behaviour once: what the call never consults
\* is held at a fixed value
Consulted(self, fs, prompt, io) ==
  LET model == IF self.backend = "openai" THEN self.primary_model ELSE self.model
      exists == _cache_path(prompt, model) \in DOMAIN fs
      hit == exists /\ io.readable
      r == generate(self, fs, prompt, io)
  IN /\ ~exists => io.readable
     /\ hit => io.first = PyNone
     /\ Len(r.net) < 2 => io.second = PyNone
     /\ (r.raised \/ hit) => io.write = "ok"

\* client.generate(prompt)
Generate ==
  /\ client.status = "ok"
  /\ \E prompt \in LLMPrompts, io \in IOs(LLMTexts) :
       LET r == generate(client, files, prompt, io) IN
       /\ Consulted(client, files, prompt, io)
       /\ files' = r.files
       /\ last' = CallRecord(r)
       /\ prev' = Earlier(last)
  /\ UNCHANGED <<env, config, client, extractVars, coerceVars, sumVars, interviewVars>>

LLMNext == LoadConfig \/ Construct \/ Generate

SpecLLM == LLMInit /\ [][LLMNext]_vars

(***************************************************************************)
(* Extraction on sampled model texts                                       *)
(***************************************************************************)
MaxPieces == 4

\* fragments a model response is assembled from
ExtractPieces ==
  {Fence, "json", " ", "1", "{", "}", "{\"a\":1}", "[", "]"}

RECURSIVE TextsUpTo(_)
TextsUpTo(n) ==
  IF n = 0 THEN {""}
  ELSE TextsUpTo(n - 1) \cup {t \o p : t \in TextsUpTo(n - 1), p \in ExtractPieces}

ExtractTexts == TextsUpTo(MaxPieces)

ExtractInit ==
  /\ text \in ExtractTexts
  /\ extracted = NotRun
  /\ LLMIdle
  /\ CoerceIdle
  /\ SumIdle
  /\ InterviewIdle

\* a direct call of _extract_json_block(text)
ExtractJsonBlock ==
  /\ extracted = NotRun
  /\ extracted' = [run |-> "block", out |-> _extract_json_block(text)]
  /\ UNCHANGED <<text, llmVars, coerceVars, sumVars, interviewVars>>

\* a call of _safe_json_parse(text), as _llm_summary makes it (line 230)
SafeJsonParse ==
  /\ extracted = NotRun
  /\ extracted' = [run |-> "parse", out |-> _safe_json_parse(text)]
  /\ UNCHANGED <<text, llmVars, coerceVars, sumVars, interviewVars>>

ExtractNext == ExtractJsonBlock \/ SafeJsonParse

SpecExtract == ExtractInit /\ [][ExtractNext]_vars

(***************************************************************************)
(* Coercion on sampled model outputs, answers and principles files         *)
(***************************************************************************)
MaxFields == 1
MaxAnswered == 1

\* values of every JSON type
JsonSamples ==
  { PyNone, PyNum(7), PyStr("maybe"), PyList(<<PyStr("x")>>),
    PyDict(<<"Grit", "Extra">>, <<PyStr("Kept going."), PyStr("n/a")>>) }

RawKeys == <<"raw_answers", "notes", "evaluation", "suitability",
             "readiness_flag", "principles_alignment">>

\* what the model may put under a key: a value of any type, or a value of
\* the shape the prompt asks for
RawOptions(key) ==
  JsonSamples \cup
  CASE key = "notes" -> {PyDict(<<"background">>, <<PyStr(Repeat("n", NoteLimit + 1))>>),
                         PyDict(<<"readiness">>, <<PyStr("Can start soon.")>>)}
    [] key = "evaluation" -> {PyStr("Good fit."), PyStr("")}
    [] key = "suitability" -> {PyStr("strong")}
    [] key = "readiness_flag" -> {PyStr("date")}
    [] key = "principles_alignment" ->
         {PyDict(<<"Grit", "Curiosity">>, <<PyStr(""), PyNone>>)}
    [] OTHER -> {}

\* the texts a candidate may have given under a key of the answers
AnswerKeys == <<"background", "full_name_background", "why_lunartech", "motivation",
                "experience", "future_goals", "readiness">>
AnswerOptions(key) ==
  CASE key = "background" -> {PyStr(Repeat("a", NoteLimit + 1)),
                              PyStr(Repeat("a", NoteLimit - 1) \o " bb"),
                              PyStr("  Studied physics. ")}
    [] key = "full_name_background" -> {PyStr("Ana, physics")}
    [] key = "why_lunartech" -> {PyStr(Repeat("m", AverageOver + 1))}
    [] key = "motivation" -> {PyStr(Repeat("m", StrongOver + 1)), PyStr(Repeat("m", AverageOver))}
    [] key = "experience" -> {PyStr(Repeat("e", AverageOver)), PyStr(Repeat("e", StrongOver)),
                              PyStr(Repeat("e", StrongOver + 1)), PyNone}
    [] key = "future_goals" -> {PyStr("Lead a data team")}
    [] key = "readiness" -> {PyStr("I am ready now"), PyStr("Starting next month"),
                             PyStr("Need some prep first"), PyStr("Later"),
                             PyStr("Ready in a month, with prep"),
                             PyStr("Next WEEK after a refresh"),
                             PyStr("Not ready yet"), PyStr("")}

RECURSIVE DictsOver(_, _, _, _)
\* the dicts with at most n of the keys keys[k..], in the order of keys;
\* options[k] is the set of values keys[k] may have
DictsOver(keys, options, k, n) ==
  IF k > Len(keys) \/ n = 0 THEN {EmptyDict}
  ELSE DictsOver(keys, options, k + 1, n) \cup
       { PyDict(<<keys[k]>> \o d.keys, <<v>> \o d.vals) :
           v \in options[k], d \in DictsOver(keys, options, k + 1, n - 1) }

RawSamples ==
  DictsOver(RawKeys, [k \in 1..Len(RawKeys) |-> RawOptions(RawKeys[k])], 1, MaxFields)
  \cup (JsonSamples \ {d \in JsonSamples : d.t = "dict"})
AnswerSets ==
  DictsOver(AnswerKeys, [k \in 1..Len(AnswerKeys) |-> AnswerOptions(AnswerKeys[k])],
            1, MaxAnswered)

PrinciplesFiles ==
  { PyNone, PyStr(""), PyStr("- Curiosity\n- Grit\n"),
    PyStr("# Principles\n1. Grit\n- \n* Grit\nplain line\n-Curiosity") }

CoerceInit ==
  /\ principles \in PrinciplesFiles
  /\ raw \in RawSamples
  /\ answers \in AnswerSets
  /\ structured = NotRun
  /\ ExtractIdle
  /\ LLMIdle
  /\ SumIdle
  /\ InterviewIdle

\* a direct call _coerce_schema(raw, answers)
Coerce ==
  /\ structured = NotRun
  /\ structured' = [run |-> "yes"] @@ _coerce_schema(raw, answers, principles)
  /\ UNCHANGED <<principles, raw, answers, extractVars, llmVars, sumVars, interviewVars>>

CoerceNext == Coerce

SpecCoerce == CoerceInit /\ [][CoerceNext]_vars

(***************************************************************************)
(* summarize_session under every environment and model outcome             *)
(***************************************************************************)
\* the number of interviews summarized against one cache directory
MaxRuns == 1

\* the session dicts: answers missing, or a dict of strings
SessionSamples ==
  { EmptyDict,
    PyDict(<<"answers">>, <<PyDict(<<"background", "motivation", "other">>,
                                   <<PyStr("Engineer; 5 yrs."),
                                     PyStr("  I want to learn ML.  "), PyStr("")>>)>>) }

\* the principles file: missing, or a list that names one principle twice
SummaryPrinciples ==
  { PyNone, PyStr("# Principles\n1. Grit\n- \n* Grit\nplain line\n-Curiosity") }

\* what the model may answer: nothing, JSON of every type, objects of the
\* requested shape and of other shapes, fenced or inside prose
ResponseTexts ==
  { "",
    "7",
    "{\"notes\": \"good\"}",
    Fence \o "json\n{\"evaluation\": \"Good fit.\", \"principles_alignment\": [1]}\n" \o Fence,
    "Here you go: {\"notes\": {\"background\": \"Solid.\"}, \"evaluation\": \"Good fit.\"}" }

\* what the FAQ phase leaves: no pair, or one question with its answer
FaqSamples ==
  { PyList(<<>>),
    PyList(<<PyDict(<<"question", "answer">>,
                    <<PyStr("When does it start?"), PyStr("In May.")>>)>>) }

SumInit ==
  /\ env \in Envs
  /\ config = NotLoaded
  /\ files = NoFiles
  /\ client = NoClient
  /\ last = NoCall
  /\ prev = NoCall
  /\ principles \in SummaryPrinciples
  /\ raw = EmptyDict
  /\ answers = EmptyDict
  /\ structured = NotRun
  /\ session \in SessionSamples
  /\ summary = NotRun
  /\ runs = 0
  /\ ExtractIdle
  /\ InterviewIdle

\* the client and the prompt a call of summarize_session would build
SummaryClient == LLMClient_init(config)
SummaryPrompt ==
  BuildPrompt(CapAnswers(SessionAnswers(session), 1, EmptyDict),
              _read_principles(principles))

\* the members of IOs(texts) that Consulted admits, found field by field:
\* what Consulted asks of readable and first does not depend on second and
\* write, and what it asks of second does not depend on write
ConsultedIOs(self, fs, prompt, texts) ==
  LET io(r, f, s, w) == [readable |-> r, first |-> f, second |-> s, write |-> w]
      A == { p \in BOOLEAN \X Outcomes(texts) :
               Consulted(self, fs, prompt, io(p[1], p[2], PyNone, "ok")) }
      B == { q \in A \X Outcomes(texts) :
               Consulted(self, fs, prompt, io(q[1][1], q[1][2], q[2], "ok")) }
  IN { x \in { io(q[1][1], q[1][2], q[2], w) :
                 q \in B, w \in {"ok", "open_failed", "write_failed"} } :
         Consulted(self, fs, prompt, x) }

\* a call that builds no client consults nothing
SummaryIOs ==
  IF config.USE_LLM_SUMMARY /\ SummaryClient.status = "ok"
  THEN ConsultedIOs(SummaryClient, files, SummaryPrompt, ResponseTexts)
  ELSE { [readable |-> TRUE, first |-> PyNone, second |-> PyNone, write |-> "ok"] }

\* main.py lines 76-99: the session is summarised, the FAQ is appended and
\* the session file is written
Summarize ==
  /\ config.status = "loaded"
  /\ runs < MaxRuns
  /\ runs' = runs + 1
  /\ \E io \in SummaryIOs :
       \E r \in {summarize_session(session, config, files, principles, io)} :
         /\ files' = r.files
         /\ \E faq_pairs \in FaqSamples :
              summary' = [r EXCEPT !.files = DOMAIN r.files] @@ [run |-> "yes"] @@
                         run_interview_summary(session, faq_pairs, r)
  /\ UNCHANGED <<env, config, client, last, prev, principles, session,
                 extractVars, raw, answers, structured, interviewVars>>

SumNext == LoadConfig \/ Summarize

SpecSummary == SumInit /\ [][SumNext]_vars

(***************************************************************************)
(* The interview, question by question, and the coercion of its answers    *)
(***************************************************************************)
\* what the candidate may say to the question of a key: nothing, too little,
\* or a sentence
UserTexts(key) == {"", "Hi", "My " \o key \o " in a sentence."}

\* what the candidate may type when asked again
TypedAgain == {"", " more "}

\* what the model may have returned for the session
InterviewRaws == {EmptyDict, PyDict(<<"suitability">>, <<PyStr("strong")>>)}

InterviewInit ==
  /\ agent = InterviewAgent_init
  /\ principles = PyNone
  /\ raw \in InterviewRaws
  /\ answers = EmptyDict
  /\ structured = NotRun
  /\ ExtractIdle
  /\ LLMIdle
  /\ SumIdle

\* main.py line 41
Start ==
  /\ agent.index >= 0
  /\ agent.turns = <<>>
  /\ agent' = start(agent)
  /\ UNCHANGED <<extractVars, llmVars, coerceVars, sumVars>>

\* main.py lines 42-58: one round of the interview loop
AskAndRecord ==
  /\ agent.index >= 0
  /\ agent.turns # <<>>
  /\ agent.index < Len(agent.questions)
  /\ \E user \in UserTexts(agent.questions[agent.index + 1].key), typed \in TypedAgain :
       agent' = record_answer(next_question(agent),
                              agent.questions[agent.index + 1].key, user, typed)
  /\ UNCHANGED <<extractVars, llmVars, coerceVars, sumVars>>

\* main.py line 76 and summarize.py lines 162-163 and 231-232: the session is
\* built and its answers are coerced with what the model returned
CoerceSession ==
  /\ agent.index >= Len(REQUIRED_QUESTIONS)
  /\ structured = NotRun
  /\ session' = build_session(agent)
  /\ answers' = SessionAnswers(build_session(agent))
  /\ structured' = [run |-> "yes"] @@
                   _coerce_schema(raw, SessionAnswers(build_session(agent)), principles)
  /\ UNCHANGED <<agent, principles, raw, summary, runs, extractVars, llmVars>>

InterviewNext == Start \/ AskAndRecord \/ CoerceSession

SpecInterview == InterviewInit /\ [][InterviewNext]_vars

(***************************************************************************)
(* Properties of LLMClient.generate                                        *)
(***************************************************************************)
SamePromptTwice == prev # NoCall /\ last.prompt = prev.prompt

C3_WriteAfterSuccess ==
  [][ /\ files' # files =>
           /\ ~last'.raised /\ ~last'.hit /\ Len(last'.net) >= 1
           /\ last'.net[Len(last'.net)].ok
           /\ \A p \in DOMAIN files' :
                FileAt(files, p) # files'[p] => p = _cache_path(last'.prompt, last'.model)
      /\ (last' # NoCall /\ last'.raised) => files' = files
      /\ (last' # NoCall /\ last'.readFailed) => ~last'.hit /\ Len(last'.net) >= 1
    ]_vars

\* C3 witness: a call whose cache read failed went to the network and then
\* replaced the entry, after an earlier call had raised
C3_Witness ==
  /\ last # NoCall /\ last.readFailed /\ ~last.raised /\ last.wrote
  /\ FileAt(files, _cache_path(last.prompt, last.model)) = PyStr(last.txt)

\* C4: a generate call that misses the cache calls, on openai, the primary
\* model once and the fallback model once more exactly when the primary
\* call failed and a fallback is configured, the fallback's failure being
\* raised; on mistral it makes exactly one call whose failure is raised.
\* Never more than two calls, never the fallback after a primary success.
C4_SingleFallback ==
  last # NoCall =>
    /\ Len(last.net) <= 2
    /\ last.hit => last.net = <<>>
    /\ ~last.hit =>
         IF client.backend = "openai"
         THEN /\ Len(last.net) >= 1
              /\ last.net[1].model = client.primary_model
              /\ Len(last.net) = 2 <=> (~last.net[1].ok /\ client.fallback_model # "")
              /\ Len(last.net) = 2 =>
                   /\ last.net[2].model = client.fallback_model
                   /\ last.raised <=> ~last.net[2].ok
              /\ Len(last.net) = 1 => (last.raised <=> ~last.net[1].ok)
         ELSE last.net = <<[model |-> client.model, ok |-> ~last.raised]>>

\* C4 witness: on openai the primary call and then the fallback call failed
C4_Witness ==
  /\ last # NoCall /\ client.backend = "openai"
  /\ Len(last.net) = 2 /\ ~last.net[2].ok /\ last.raised

(***************************************************************************)
(* Properties of summarize_session                                         *)
(***************************************************************************)
RecordFields ==
  {"raw_answers", "notes", "evaluation", "suitability", "readiness_flag",
   "principles_alignment"}

UnrecognizedBackend ==
  Lower(getenv(env.LLM_BACKEND, PyStr("mistral")).s) \notin {"openai", "mistral"}

\* the credential of the selected backend is not set in the environment
MissingCredential ==
  LET backend == Lower(getenv(env.LLM_BACKEND, PyStr("mistral")).s) IN
  \/ backend = "openai" /\ env.OPENAI_API_KEY = PyNone
  \/ backend = "mistral" /\ env.MISTRAL_API_KEY = PyNone

ReadinessFlags == {"ready_now", "date", "needs_prep", "unknown"}

\* the call returned a record
CoerceReturned == structured.run = "yes" /\ ~structured.raised

\* C6: in every record _coerce_schema returns, readiness_flag is one of
\* ready_now, date, needs_prep and unknown, whatever readiness_flag the
\* model's output carries.
C6_ReadinessFlagInSet ==
  CoerceReturned =>
    DictGet(structured.value, "readiness_flag", PyNone) \in {PyStr(f) : f \in ReadinessFlags}

\* C7: in every record _coerce_schema returns, every value of notes is a
\* text of at most 220 characters, the ellipsis of a truncated note included,
\* whether the model supplied the note or it was cut from the raw answer.
C7_NotesWithinLimit ==
  CoerceReturned =>
    LET notes == DictGet(structured.value, "notes", PyNone) IN
    \A i \in 1..Len(notes.vals) :
      notes.vals[i].t = "str" /\ Len(notes.vals[i].s) <= NoteLimit

\* the principle names parsed from the principles file, in parse order, a
\* name listed twice standing twice
ParsedNames == PrincipleNames(splitlines(_read_principles(principles)), 1)

\* the evidence the model gave for a name: a non-empty text, else ""
EvidenceFor(name) ==
  LET pa == DictGet(raw, "principles_alignment", PyNone)
      v == IF pa.t = "dict" THEN DictGet(pa, name, PyNone) ELSE PyNone
  IN IF Truthy(v) THEN v ELSE PyStr("")

\* C8: principles_alignment of every returned record has one entry per
\* parsed list item, in parse order and not deduplicated, and each entry's
\* value is the model's evidence for that name when present and non-empty,
\* else the empty string; no other name appears.
C8_OneEntryPerParsedItem ==
  CoerceReturned =>
    LET pa == DictGet(structured.value, "principles_alignment", PyNone) IN
    /\ pa.keys = ParsedNames
    /\ \A i \in 1..Len(pa.keys) : pa.vals[i] = EvidenceFor(pa.keys[i])

\* a raw output within the domain of the claim: a dict, each of whose
\* values is of any JSON type; the answers are a mapping of strings
ClaimedInput ==
  /\ raw.t = "dict"
  /\ \A i \in 1..Len(answers.vals) : answers.vals[i].t = "str"

\* C9: _coerce_schema is total: on every raw output that holds any subset of
\* the six keys with values of any JSON type, and every answers mapping of
\* strings, it returns a complete record and never raises.
C9_CoerceIsTotal ==
  (structured.run = "yes" /\ ClaimedInput) =>
    /\ ~structured.raised
    /\ \A k \in RecordFields : DictHas(structured.value, k)

(***************************************************************************)
(* Properties of the extraction                                            *)
(***************************************************************************)
RECURSIVE FenceMarks(_, _)
\* the fences of a text, left to right, not overlapping
FenceMarks(s, i) ==
  LET p == FindFrom(s, Fence, i) IN
  IF p = 0 THEN <<>> ELSE <<p>> \o FenceMarks(s, p + 3)

\* what lies between an opening fence at p and a closing fence at q, without
\* the json tag that directly follows the opening fence, trimmed
BlockContents(s, p, q) ==
  LET tagged == p + 6 < q /\ Lower(SubSeq(s, p + 3, p + 6)) = "json"
  IN Strip(SubSeq(s, IF tagged THEN p + 7 ELSE p + 3, q - 1))

\* the fenced blocks of a text: the fences paired off in order
FencedBlocks(s) ==
  LET m == FenceMarks(s, 1) IN
  [k \in 1..(Len(m) \div 2) |-> BlockContents(s, m[2 * k - 1], m[2 * k])]

DecodableBlocks(s) ==
  {FencedBlocks(s)[k] : k \in {k \in 1..Len(FencedBlocks(s)) : Decodes(FencedBlocks(s)[k])}}

FirstBlockDecodes(s) == Len(FencedBlocks(s)) > 0 /\ Decodes(FencedBlocks(s)[1])

\* the substrings that run from an opening brace to a closing brace and decode
DecodableSpans(s) ==
  {SubSeq(s, o, c) : <<o, c>> \in
     {oc \in (1..Len(s)) \X (1..Len(s)) :
        /\ oc[1] < oc[2]
        /\ CharAt(s, oc[1]) = "{"
        /\ CharAt(s, oc[2]) = "}"
        /\ Decodes(SubSeq(s, oc[1], oc[2]))}}

ValuesOf(S) == {json_loads(c).v : c \in S}

\* C10 as stated: strict priority fence, brace scan, whole text.  A text
\* with a fenced block that decodes yields that block's contents; the whole
\* text is decoded only when neither a block nor the brace scan gave a result.
C10_StrictPriority ==
  extracted.run = "parse" =>
    /\ DecodableBlocks(text) # {} => extracted.out \in ValuesOf(DecodableBlocks(text))
    /\ (DecodableBlocks(text) = {} /\ BraceStrategy(text) # PyNone)
         => extracted.out = json_loads(BraceStrategy(text).s).v

\* C10 amended: _safe_json_parse returns the decoded entire text when the
\* entire text decodes; only otherwise the strategies of _extract_json_block
\* apply in the order first fenced block, brace scan, trimmed text: the first
\* fenced block's contents win whenever they decode, whatever the brace scan
\* would find, and without such a block the result is the object of a
\* brace-delimited span or, when none was found, empty.  A direct call of
\* _extract_json_block returns the first fenced block's contents whenever
\* they decode.
C10_FirstBlockAfterWholeText ==
  /\ extracted.run = "parse" =>
       /\ Decodes(text) => extracted.out = json_loads(text).v
       /\ (~Decodes(text) /\ FirstBlockDecodes(text))
            => extracted.out = json_loads(FencedBlocks(text)[1]).v
       /\ (~Decodes(text) /\ ~FirstBlockDecodes(text))
            => extracted.out \in ValuesOf(DecodableSpans(text)) \cup {EmptyDict}
  /\ extracted.run = "block" =>
       /\ FirstBlockDecodes(text) => extracted.out = PyStr(FencedBlocks(text)[1])
       /\ (~FirstBlockDecodes(text) /\ extracted.out # PyNone)
            => extracted.out.s \in DecodableSpans(text) \cup {Strip(text)}

\* C10 witness: the entire text does not decode, its first fenced block
\* decodes, and a brace-delimited span decodes to a different value
C10_Witness ==
  /\ extracted.run = "parse"
  /\ ~Decodes(text)
  /\ FirstBlockDecodes(text)
  /\ \E c \in DecodableSpans(text) : json_loads(c).v # json_loads(FencedBlocks(text)[1]).v
  /\ extracted.out = json_loads(FencedBlocks(text)[1]).v

\* the (opening brace, closing brace) positions whose substring decodes
SpanEnds(s) ==
  {oc \in (1..Len(s)) \X (1..Len(s)) :
     /\ oc[1] < oc[2]
     /\ CharAt(s, oc[1]) = "{"
     /\ CharAt(s, oc[2]) = "}"
     /\ Decodes(SubSeq(s, oc[1], oc[2]))}

\* the widest decodable span of the earliest opening brace that has one
WidestOfEarliest(s) ==
  LET o == Min({oc[1] : oc \in SpanEnds(s)})
      c == Max({oc[2] : oc \in {x \in SpanEnds(s) : x[1] = o}})
  IN SubSeq(s, o, c)

\* C11: when no fenced block decodes and the text holds a substring that
\* runs from an opening brace to a closing brace and decodes, the brace scan
\* of _extract_json_block returns a block (not None), and that block is the
\* widest decodable span of the earliest opening brace that has one.
C11_BraceScanFindsWidestSpan ==
  (extracted.run = "block" /\ DecodableBlocks(text) = {} /\ SpanEnds(text) # {})
    => extracted.out = PyStr(WidestOfEarliest(text))

(***************************************************************************)
(* Properties of the evaluation field                                      *)
(***************************************************************************)
\* the evaluation the model contributed to the latest summarize_session
\* call: PyNone when no generate call returned text, when its text gave no
\* object, or when the object holds no non-empty evaluation
ModelEvaluation ==
  IF summary.gen = NoCall \/ summary.gen.raised THEN PyNone
  ELSE LET from(obj) ==
             IF obj.t = "dict" /\ Truthy(DictGet(obj, "evaluation", PyNone))
             THEN DictGet(obj, "evaluation", PyNone) ELSE PyNone
       IN from(_safe_json_parse(summary.gen.txt))

\* C12: a summary to which the model contributed no evaluation carries the
\* one template literal as its evaluation; otherwise the evaluation is the
\* model's; the evaluation is never empty.
C12_OneTemplateLiteral ==
  summary.run = "yes" =>
    LET evaluation == DictGet(summary.record, "evaluation", PyNone) IN
    /\ ModelEvaluation = PyNone => evaluation = PyStr(TemplateEvaluation)
    /\ ModelEvaluation # PyNone => evaluation = ModelEvaluation
    /\ Truthy(evaluation)

(***************************************************************************)
(* Properties of the record's lifecycle                                    *)
(***************************************************************************)
\* C13: the record that was rendered and the record that was written to the
\* session file both equal the record the coercion step returned: no field
\* is added, removed or changed after construction.
C13_RecordNeverMutated ==
  (summary.run = "yes" /\ ~summary.raised) =>
    /\ summary.record = summary.built
    /\ summary.saved.summary = summary.built

(***************************************************************************)
(* Properties of suitability and of the readiness flag                     *)
(***************************************************************************)
SuitabilityLiterals == {PyStr("strong"), PyStr("average"), PyStr("weak")}

\* the lengths of the motivation answer and of the experience answer
HeuristicLengths ==
  { Len(pick(answers, <<"why_lunartech", "motivation">>)),
    Len(pick(answers, <<"experience">>)) }

\* C14: in every record _coerce_schema returns, suitability is the model's
\* value when that is one of strong, average and weak; otherwise it is strong
\* when the motivation or the experience answer is longer than 120, else
\* average when one of them is longer than 40, else weak.
C14_SuitabilityFromModelOrLengths ==
  CoerceReturned =>
    LET given == DictGet(raw, "suitability", PyNone)
        longest == Max(HeuristicLengths)
    IN DictGet(structured.value, "suitability", PyNone) =
         IF given \in SuitabilityLiterals THEN given
         ELSE IF longest > 120 THEN PyStr("strong")
         ELSE IF longest > 40 THEN PyStr("average")
         ELSE PyStr("weak")

\* an experience answer of exactly 120 characters, and no usable value from
\* the model, gave average
C14_Witness ==
  /\ CoerceReturned
  /\ DictGet(raw, "suitability", PyNone) \notin SuitabilityLiterals
  /\ Max(HeuristicLengths) = 120
  /\ DictGet(structured.value, "suitability", PyNone) = PyStr("average")

\* the readiness answer as the heuristic reads it, lower-cased
ReadinessAnswer == Lower(pick(answers, <<"readiness">>))

\* the keyword groups of the heuristic that the readiness answer matches
MatchedGroups ==
  { g \in 1..3 :
      \E w \in << {"immediate", "ready", "now"},
                  {"week", "month", " from ", "start "},
                  {"prep", "support", "refresh", "not ready"} >>[g] :
        Contains(ReadinessAnswer, w) }

\* C15: in every record _coerce_schema returns for a model output without a
\* readiness_flag, the flag is that of the earliest keyword group the
\* lower-cased readiness answer matches (ready_now, date, needs_prep in this
\* order) and unknown when it matches none, is empty or is absent.
C15_ReadinessFirstMatchWins ==
  (CoerceReturned /\ ~Truthy(DictGet(raw, "readiness_flag", PyNone))) =>
    DictGet(structured.value, "readiness_flag", PyNone) =
      IF MatchedGroups = {} THEN PyStr("unknown")
      ELSE PyStr(<<"ready_now", "date", "needs_prep">>[Min(MatchedGroups)])

\* an answer that matches the ready group and the date group gave ready_now
C15_Witness ==
  /\ CoerceReturned
  /\ ~DictHas(raw, "readiness_flag")
  /\ {1, 2} \subseteq MatchedGroups
  /\ DictGet(structured.value, "readiness_flag", PyNone) = PyStr("ready_now")

(***************************************************************************)
(* Properties of the cache                                                 *)
(***************************************************************************)
\* C16: when a generate call stores a cache entry, the entry lies under the
\* key of the model whose request produced the stored text, so an entry
\* under (model, prompt) holds text which that model generated.
C16_CacheEntryFromItsModel ==
  (last # NoCall /\ last.wrote) =>
    /\ FileAt(files, _cache_path(last.prompt, last.model)) = PyStr(last.txt)
    /\ last.net[Len(last.net)].ok
    /\ last.net[Len(last.net)].model = last.model

(***************************************************************************)
(* Properties of the answers of an interview                               *)
(***************************************************************************)
\* C17: once the answers of an interview are coerced, every non-empty answer
\* the agent recorded under a question key is the value of one of the five
\* raw_answers fields of the record.
C17_NoRecordedAnswerDropped ==
  (agent # NoAgent /\ CoerceReturned) =>
    \A i \in 1..Len(agent.answers.keys) :
      Truthy(agent.answers.vals[i]) =>
        \E f \in 1..Len(FieldNames) :
          DictGet(DictGet(structured.value, "raw_answers", EmptyDict),
                  FieldNames[f], PyNone) = agent.answers.vals[i]

====
